---- MODULE Spec2Model ----
(***************************************************************************)
(* A model of tchannel/tornado/connection.py: TornadoConnection,           *)
(* StreamConnection, Reader and Writer, as one connection running on one   *)
(* IOLoop.  Every action is one callback of the IOLoop (a public method    *)
(* call, a coroutine resumption, a timer, a stream event).                 *)
(***************************************************************************)
EXTENDS Integers, Sequences, FiniteSets, TLC

(* ------------------------------------------------------------------ *)
(* Program constants and the bounds of the model                      *)
(* ------------------------------------------------------------------ *)

\* glossary.MAX_MESSAGE_ID (imported at connection.py:47) is 0xfffffffe, all-ones
\* minus one, in 32 bits.  TLC's integers have 31 bits: the model takes the
\* constant of the same shape in 31 bits.  The counter is only ever used
\* modulo this constant.
MAX_MESSAGE_ID == 2147483646

\* Calls of send / send_request (the number of response slots ever created).
MaxSends == 2
\* Calls of Writer.put (frames ever enqueued).
MaxPuts == 3
\* Frames the peer delivers on the stream.
MaxInbound == 3
\* Calls of await().
MaxAwaits == 2
\* Calls of close().
MaxCloses == 2
\* Calls of initiate_handshake and expect_handshake.
MaxHandshakes == 2

CALL_REQ_TYPES == {"CALL_REQ", "CALL_REQ_CONTINUE"}
CALL_RES_TYPES == {"CALL_RES", "CALL_RES_CONTINUE"}

\* FlagsType of messages.common: none / fragment.
FlagsType == {"none", "fragment"}

\* The header sets an INIT message may carry.
HeaderKinds == {"full", "no_host_port", "no_process_name"}

Message(t, i, fl, h) == [message_type |-> t, id |-> i, flags |-> fl, headers |-> h]

NoMsg == Message("NONE", 0, "none", "full")

\* Ids a caller passes in a message or request (0: not assigned yet).
CallerIds == {0, 1}

\* Ids the peer puts in the frames it sends.
PeerIds == {0, 1}

\* ttl values of a request (0: no timeout registered).
Ttls == {0, 1}

\* The frames the peer may send while this side waits in a handshake.
HandshakeMessages ==
    {Message("INIT_REQ", 1, "none", h) : h \in {"full", "no_host_port"}}
    \cup {Message("INIT_RES", 1, "none", h) : h \in HeaderKinds}

\* The frames the peer may send otherwise.
CallMessages ==
    {Message("CALL_REQ", 1, "none", "full"), Message("PING_RES", 1, "none", "full")}
    \cup {Message("ERROR", i, "none", "full") : i \in PeerIds}
    \cup {Message("CALL_RES", i, fl, "full") : i \in PeerIds, fl \in FlagsType}
    \cup {Message("CALL_RES_CONTINUE", 1, fl, "full") : fl \in FlagsType}

PeerMessages == HandshakeMessages \cup CallMessages

\* First frames of a peer that an expect_handshake may receive: INIT_REQ
\* with an id the initiator chose and any of the header sets, or a frame
\* that is not an INIT_REQ.
FirstMessages ==
    {Message("INIT_REQ", i, "none", h) : i \in {1, 2}, h \in HeaderKinds}
    \cup {Message("INIT_RES", 1, "none", "full"), Message("CALL_REQ", 1, "none", "full")}

\* Ping requests of the peer.
PingMessages == {Message("PING_REQ", i, "none", "full") : i \in PeerIds}

\* Calls of the peer whose id is their position on the wire: the handshake
\* frame is the first frame, the calls follow.
InboundCalls ==
    {Message(t, i, "none", "full") : t \in CALL_REQ_TYPES, i \in 2..MaxInbound}

\* Every frame the peer may send once no handshake waits for its message.
DispatchMessages == CallMessages \cup PingMessages \cup InboundCalls

\* The value set of the id counter when the connection is created: a fresh
\* Writer starts at 0; MAX_MESSAGE_ID - 1 stands for a Writer that has
\* already issued that many ids, one step before the counter wraps.
InitialIdSequences == {0, MAX_MESSAGE_ID - 1}

VARIABLES
    closed,           \* TornadoConnection.closed
    loop_running,     \* TornadoConnection._loop_running
    outstanding,      \* TornadoConnection._outstanding: set of [id, fut]
    futures,          \* the response slots created by send / send_request
    tombstones,       \* TornadoConnection._request_tombstones: set of [id, ttl]
    messages,         \* TornadoConnection._messages (items queued)
    msg_getters,      \* pending getters of _messages (indices of awaits)
    awaits,           \* the futures returned by await()
    close_cb,         \* TornadoConnection._close_cb: 0 (None) or a callback
    remote,           \* remote_host, remote_host_port, remote_process_name, requested_version
    response_buffer,  \* response_message_factory: ids with open reassembly state
    timers,           \* IOLoop timeouts of _add_timeout: set of [id, ttl, fut]
    hs,               \* the handshake coroutines, one per call: [pc, kind, msg]
    loop,             \* the _loop coroutines, one per call of _loop: [pc, msg]
    reader_filling,   \* Reader.filling
    fill_tasks,       \* history: chains of Reader.fill started by Reader.get
    reader_queue,     \* Reader.queue (items queued)
    reader_getters,   \* pending getters of Reader.queue
    writer_draining,  \* Writer.draining
    drain_tasks,      \* history: calls of Writer.drain
    writer_queue,     \* Writer.queue: sequence of [frame, done]
    id_sequence,      \* Writer._id_sequence
    drain,            \* the drain callback chain: [pc, item]
    handles,          \* the done_writing futures returned by Writer.put
    wire_out,         \* what the stream has received from io_stream.write
    stream_closed,    \* io_stream.closed()
    close_notify,     \* the stream's close callback: armed / scheduled / ran
    put_log,          \* history: the frames in the order put enqueued them
    on_close_runs,    \* history: executions of _on_close
    close_cb_calls,   \* history: invocations of the close callback
    close_calls,      \* history: calls of close()
    inbound_count,    \* history: frames received from the peer
    late,             \* history: the loop got a response for a timed-out call
    error_events,     \* history: after_receive_error events fired
    rejected,         \* history: which of send and set_close_callback failed
                      \* an assertion
    idle_timeouts,    \* history: a timeout fired on a future that was done
    streaming         \* the _stream coroutine of a call and its context

conn_vars == <<closed, loop_running, outstanding, futures, tombstones, messages,
               msg_getters, awaits, close_cb, remote, response_buffer, timers>>
coro_vars == <<hs, loop, streaming>>
reader_vars == <<reader_filling, fill_tasks, reader_queue, reader_getters>>
writer_vars == <<writer_draining, drain_tasks, writer_queue, id_sequence, drain, handles,
                 wire_out, put_log>>
stream_vars == <<stream_closed, close_notify>>
hist_vars == <<on_close_runs, close_cb_calls, close_calls, inbound_count, late,
               error_events, rejected, idle_timeouts>>

vars == <<conn_vars, coro_vars, reader_vars, writer_vars, stream_vars, hist_vars>>

(* ------------------------------------------------------------------ *)
(* Futures and the outstanding table                                  *)
(* ------------------------------------------------------------------ *)

\* tornado Future.running(): not done.
running(fs, f) == fs[f].state = "pending"

\* Future.set_result / set_exception: the outcome is stored whatever the
\* state of the future was.
set_done(fs, f, outcome) ==
    [fs EXCEPT ![f] = [state |-> outcome, completions |-> @.completions + 1]]

NewFuture == [state |-> "pending", completions |-> 0]

\* message.id in self._outstanding
HasKey(o, id) == \E e \in o : e.id = id

\* self._outstanding.get(id)
Lookup(o, id) == (CHOOSE e \in o : e.id = id).fut

\* self._outstanding.pop(id)
Pop(o, id) == {e \in o : e.id # id}

\* self._outstanding[id] = future
SetItem(o, id, f) == {e \in o : e.id # id} \cup {[id |-> id, fut |-> f]}

Keys(o) == {e.id : e \in o}

(* ------------------------------------------------------------------ *)
(* Writer                                                             *)
(* ------------------------------------------------------------------ *)

NoItem == [frame |-> NoMsg, done |-> 0]

\* No call is streamed: the context of _stream before it is called.
NoStream ==
    [pc |-> "idle", message_type |-> "NONE", id |-> 0, argstreams |-> <<>>,
     args |-> 0, state |-> "init", done |-> 0, written |-> <<>>]

\* The Writer as a value, so that a handler that calls put several times is
\* one action.
WriterState ==
    [draining |-> writer_draining, tasks |-> drain_tasks, queue |-> writer_queue,
     id_sequence |-> id_sequence, drain |-> drain, handles |-> handles,
     put_log |-> put_log]

SetWriter(w) ==
    /\ writer_draining' = w.draining
    /\ drain_tasks' = w.tasks
    /\ writer_queue' = w.queue
    /\ id_sequence' = w.id_sequence
    /\ drain' = w.drain
    /\ handles' = w.handles
    /\ put_log' = w.put_log

\* Writer.next_message_id: the new value of the counter, which is returned.
next_message_id(seq) == (seq + 1) % MAX_MESSAGE_ID

\* message.id = message.id or self.writer.next_message_id()
AssignId(id, seq) ==
    IF id # 0
    THEN [id |-> id, seq |-> seq]
    ELSE [id |-> next_message_id(seq), seq |-> next_message_id(seq)]

\* frame.frame_rw.write: the bytes of a frame, as the units the stream
\* accepts one after the other (size and header, then payload).
encode(frame) ==
    <<[part |-> "header", message_type |-> frame.message_type, id |-> frame.id],
      [part |-> "payload", message_type |-> frame.message_type, id |-> frame.id,
       flags |-> frame.flags, headers |-> frame.headers]>>

\* Not the code: an _enqueue that puts the item at the head of the queue.
_enqueue_at_head(w, message) ==
    LET a == AssignId(message.id, w.id_sequence)
        frame == [message EXCEPT !.id = a.id]
        item == [frame |-> frame, done |-> Len(w.handles) + 1]
    IN [w EXCEPT
          !.id_sequence = a.seq,
          !.handles = Append(@, "pending"),
          !.put_log = Append(@, frame),
          !.queue = IF w.drain.pc = "get" THEN @ ELSE <<item>> \o @,
          !.drain = IF w.drain.pc = "get" THEN [pc |-> "msg", item |-> item] ELSE @]

\* Writer._enqueue, with queue.put handing the item to a waiting getter.
_enqueue(w, message) ==
    LET a == AssignId(message.id, w.id_sequence)
        frame == [message EXCEPT !.id = a.id]
        item == [frame |-> frame, done |-> Len(w.handles) + 1]
    IN [w EXCEPT
          !.id_sequence = a.seq,
          !.handles = Append(@, "pending"),
          !.put_log = Append(@, frame),
          !.queue = IF w.drain.pc = "get" THEN @ ELSE Append(@, item),
          !.drain = IF w.drain.pc = "get" THEN [pc |-> "msg", item |-> item] ELSE @]

\* Writer.drain: sets draining and spawns next_write.
drain_start(w) ==
    [w EXCEPT !.draining = TRUE, !.tasks = @ + 1,
              !.drain = [pc |-> "next", item |-> NoItem]]

\* Writer.put
put(w, message) ==
    _enqueue(IF w.draining = FALSE THEN drain_start(w) ELSE w, message)

\* drain.next_write: stops when the stream is closed, else asks the queue
\* for the next item.
next_write ==
    /\ drain.pc = "next"
    /\ IF stream_closed
       THEN /\ drain' = [pc |-> "stopped", item |-> NoItem]
            /\ UNCHANGED writer_queue
       ELSE IF writer_queue = <<>>
       THEN /\ drain' = [pc |-> "get", item |-> NoItem]
            /\ UNCHANGED writer_queue
       ELSE /\ drain' = [pc |-> "msg", item |-> Head(writer_queue)]
            /\ writer_queue' = Tail(writer_queue)
    /\ UNCHANGED <<writer_draining, drain_tasks, id_sequence, handles, wire_out, put_log>>
    /\ UNCHANGED <<conn_vars, coro_vars, reader_vars, stream_vars, hist_vars>>

\* drain.on_message: io_stream.write(message); on a closed stream the write
\* raises and the chain of callbacks ends.
on_message ==
    /\ drain.pc = "msg"
    /\ drain' = IF stream_closed
                THEN [pc |-> "stopped", item |-> NoItem]
                ELSE [drain EXCEPT !.pc = "write"]
    /\ UNCHANGED <<writer_draining, drain_tasks, writer_queue, id_sequence, handles, wire_out,
                   put_log>>
    /\ UNCHANGED <<conn_vars, coro_vars, reader_vars, stream_vars, hist_vars>>

\* The write of the stream ends and drain.on_write runs: the frame is on the
\* wire and done gets the result, or the stream was closed first and done
\* gets the exception; next_write is spawned.
on_write ==
    /\ drain.pc = "write"
    /\ IF stream_closed
       THEN /\ handles' = [handles EXCEPT ![drain.item.done] = "failed"]
            /\ UNCHANGED wire_out
       ELSE /\ handles' = [handles EXCEPT ![drain.item.done] = "ok"]
            /\ wire_out' = wire_out \o encode(drain.item.frame)
    /\ drain' = [pc |-> "next", item |-> NoItem]
    /\ UNCHANGED <<writer_draining, drain_tasks, writer_queue, id_sequence, put_log>>
    /\ UNCHANGED <<conn_vars, coro_vars, reader_vars, stream_vars, hist_vars>>

(* ------------------------------------------------------------------ *)
(* Message factory (response side) and tombstones                     *)
(* ------------------------------------------------------------------ *)

\* response_message_factory.build(message): buffer is the set of ids with
\* open reassembly state.  A head frame with the fragment flag opens the
\* state, a continue frame with the flag appends to it, a frame without the
\* flag finalizes and delivers the message; a continue frame without open
\* state is a protocol error; an ERROR frame yields an exception when there
\* is open state for its id.  Other types yield nothing.
build(buffer, message) ==
    LET t == message.message_type
        i == message.id
    IN IF t = "CALL_RES"
       THEN IF message.flags = "fragment"
            THEN [buffer |-> buffer \cup {i}, value |-> FALSE, raises |-> FALSE]
            ELSE [buffer |-> buffer \ {i}, value |-> TRUE, raises |-> FALSE]
       ELSE IF t = "CALL_RES_CONTINUE"
       THEN IF i \notin buffer
            THEN [buffer |-> buffer, value |-> FALSE, raises |-> TRUE]
            ELSE IF message.flags = "fragment"
            THEN [buffer |-> buffer, value |-> FALSE, raises |-> FALSE]
            ELSE [buffer |-> buffer \ {i}, value |-> TRUE, raises |-> FALSE]
       ELSE IF t = "ERROR"
       THEN [buffer |-> buffer \ {i}, value |-> i \in buffer, raises |-> FALSE]
       ELSE [buffer |-> buffer, value |-> FALSE, raises |-> FALSE]

\* Cemetery.__contains__
tombstone_contains(ts, id) == \E e \in ts : e.id = id

\* Cemetery.add(id, ttl)
tombstone_add(ts, id, ttl) == {e \in ts : e.id # id} \cup {[id |-> id, ttl |-> ttl]}

(* ------------------------------------------------------------------ *)
(* The dispatch loop                                                  *)
(* ------------------------------------------------------------------ *)

\* What the body of _loop reads and writes, as a value: the loop handles
\* every message already queued in one callback.
DispatchState ==
    [outstanding |-> outstanding, futures |-> futures, messages |-> messages,
     msg_getters |-> msg_getters, awaits |-> awaits,
     response_buffer |-> response_buffer, alive |-> TRUE, late |-> late]

SetDispatch(d) ==
    /\ outstanding' = d.outstanding
    /\ futures' = d.futures
    /\ messages' = d.messages
    /\ msg_getters' = d.msg_getters
    /\ awaits' = d.awaits
    /\ response_buffer' = d.response_buffer
    /\ late' = d.late

\* self._messages.put(message): a pending getter of await() takes the item.
messages_put(d, message) ==
    IF d.msg_getters # <<>>
    THEN [d EXCEPT
            !.awaits[Head(d.msg_getters)] = [state |-> "message", msg |-> message],
            !.msg_getters = Tail(@)]
    ELSE [d EXCEPT !.messages = Append(@, message)]

\* _loop, lines 204-223: an ERROR frame whose id is in the outstanding table.
\* self.event_emitter is not an attribute of the connection: the fire of
\* after_receive_error raises and ends the loop.
loop_error(d, message) ==
    LET future == Lookup(d.outstanding, message.id)
        popped == [d EXCEPT !.outstanding = Pop(@, message.id)]
        b == build(d.response_buffer, message)
    IN IF running(d.futures, future)
       THEN [popped EXCEPT !.futures = set_done(@, future, "error")]
       ELSE [popped EXCEPT !.response_buffer = b.buffer,
                           !.alive = ~b.value]

\* Not the code: lines 225-238 without the test of future.running().
loop_response_unguarded(d, message) ==
    LET b == build(d.response_buffer, message)
        future == Lookup(d.outstanding, message.id)
        keep == /\ message.message_type \in CALL_RES_TYPES
                /\ message.flags = "fragment"
        d1 == [d EXCEPT !.response_buffer = b.buffer,
                        !.outstanding = IF keep THEN @ ELSE Pop(@, message.id)]
    IN IF b.raises
       THEN [d EXCEPT !.alive = FALSE]
       ELSE IF b.value
       THEN [d1 EXCEPT !.futures = set_done(@, future, "result")]
       ELSE d1

\* Not the code: lines 225-238 with the slot popped whatever the flags are.
loop_response_pop_always(d, message) ==
    LET b == build(d.response_buffer, message)
        future == Lookup(d.outstanding, message.id)
        d1 == [d EXCEPT !.response_buffer = b.buffer,
                        !.outstanding = Pop(@, message.id)]
    IN IF b.raises
       THEN [d EXCEPT !.alive = FALSE]
       ELSE IF b.value /\ running(d.futures, future)
       THEN [d1 EXCEPT !.futures = set_done(@, future, "result")]
       ELSE d1

\* _loop, lines 225-238: any other frame whose id is in the outstanding table.
loop_response(d, message) ==
    LET b == build(d.response_buffer, message)
        future == Lookup(d.outstanding, message.id)
        keep == /\ message.message_type \in CALL_RES_TYPES
                /\ message.flags = "fragment"
        d1 == [d EXCEPT !.response_buffer = b.buffer,
                        !.outstanding = IF keep THEN @ ELSE Pop(@, message.id)]
    IN IF b.raises
       THEN [d EXCEPT !.alive = FALSE]
       ELSE IF b.value /\ running(d.futures, future)
       THEN [d1 EXCEPT !.futures = set_done(@, future, "result")]
       ELSE d1

\* History: message is a CALL_RES or ERROR whose id belongs to a call that
\* timed out (its slot is still in the table, or its tombstone is there).
is_late(d, message) ==
    /\ message.message_type \in CALL_RES_TYPES \cup {"ERROR"}
    /\ IF HasKey(d.outstanding, message.id)
       THEN d.futures[Lookup(d.outstanding, message.id)].state = "timeout"
       ELSE tombstone_contains(tombstones, message.id)

\* Not the code: a loop that looks the id up in the table before it tests
\* the type of the message.
loop_body_id_first(d, message) ==
    IF HasKey(d.outstanding, message.id)
    THEN IF message.message_type = "ERROR"
         THEN loop_error(d, message)
         ELSE loop_response(d, message)
    ELSE IF message.message_type \in CALL_REQ_TYPES
    THEN messages_put(d, message)
    ELSE d

\* The body of the while loop of _loop for one message.
loop_body(d, message) ==
    LET h == [d EXCEPT !.late = @ \/ is_late(d, message)]
    IN IF message.message_type \in CALL_REQ_TYPES
       THEN messages_put(h, message)
       ELSE IF HasKey(h.outstanding, message.id)
       THEN IF message.message_type = "ERROR"
            THEN loop_error(h, message)
            ELSE loop_response(h, message)
       ELSE IF tombstone_contains(tombstones, message.id)
       THEN h
       ELSE h

\* while not self.closed: message = yield self.reader.get(); ...
\* run from the point where the loop tests self.closed, over the items
\* queue holds: pc is where the coroutine is left.
RECURSIVE _loop(_, _)
_loop(d, queue) ==
    IF ~d.alive THEN [d |-> d, queue |-> queue, pc |-> "dead"]
    ELSE IF closed THEN [d |-> d, queue |-> queue, pc |-> "done"]
    ELSE IF queue = <<>> THEN [d |-> d, queue |-> queue, pc |-> "get"]
    ELSE _loop(loop_body(d, Head(queue)), Tail(queue))

LoopGetter(k) == [who |-> "loop", k |-> k]
HsGetter(k) == [who |-> "hs", k |-> k]

\* The loop coroutine is resumed with the message its reader.get() produced.
loop_resume(k) ==
    /\ k \in DOMAIN loop
    /\ loop[k].pc = "got"
    /\ LET r == _loop(loop_body(DispatchState, loop[k].msg), reader_queue)
       IN /\ SetDispatch(r.d)
          /\ loop' = [loop EXCEPT ![k] = [pc |-> r.pc, msg |-> NoMsg]]
          /\ reader_queue' = r.queue
          /\ reader_getters' = IF r.pc = "get"
                               THEN Append(reader_getters, LoopGetter(k))
                               ELSE reader_getters
    /\ UNCHANGED <<closed, loop_running, tombstones, close_cb, remote, timers, hs,
                   streaming, reader_filling, fill_tasks>>
    /\ UNCHANGED <<writer_vars, stream_vars, on_close_runs, close_cb_calls,
                   close_calls, inbound_count, error_events, idle_timeouts, rejected>>

(* ------------------------------------------------------------------ *)
(* Reader                                                             *)
(* ------------------------------------------------------------------ *)

\* Reader.fill / _dequeue / keep_reading: the next frame of the peer is read
\* and decoded, queue.put hands it to the oldest pending getter or queues it,
\* and fill is spawned again.  A read that fails (closed stream) is logged
\* and the message future is never resolved, which ends the chain.
keep_reading(m) ==
    /\ m \in (IF \E k \in DOMAIN hs : hs[k].pc = "wait"
              THEN HandshakeMessages \cup FirstMessages
              ELSE DispatchMessages)
    /\ reader_filling
    /\ ~stream_closed
    /\ inbound_count < MaxInbound
    /\ inbound_count' = inbound_count + 1
    /\ IF reader_getters = <<>>
       THEN /\ reader_queue' = Append(reader_queue, m)
            /\ UNCHANGED <<reader_getters, hs, loop, awaits>>
       ELSE LET g == Head(reader_getters)
            IN /\ reader_getters' = Tail(reader_getters)
               /\ UNCHANGED reader_queue
               /\ hs' = IF g.who = "hs"
                        THEN [hs EXCEPT ![g.k].pc = "got", ![g.k].msg = m]
                        ELSE hs
               /\ loop' = IF g.who = "loop"
                          THEN [loop EXCEPT ![g.k] = [pc |-> "got", msg |-> m]]
                          ELSE loop
               /\ awaits' = IF g.who = "await"
                            THEN [awaits EXCEPT ![g.k] = [state |-> "message", msg |-> m]]
                            ELSE awaits
    /\ UNCHANGED <<closed, loop_running, outstanding, futures, tombstones, messages,
                   msg_getters, close_cb, remote, response_buffer, timers,
                   streaming, reader_filling, fill_tasks>>
    /\ UNCHANGED <<writer_vars, stream_vars, on_close_runs, close_cb_calls,
                   close_calls, late, error_events, idle_timeouts, rejected>>

(* ------------------------------------------------------------------ *)
(* The stream                                                         *)
(* ------------------------------------------------------------------ *)

\* IOStream.close(), by this side or on a disconnect of the peer: the first
\* close marks the stream closed, fails the write in flight after some of
\* its bytes (not all) reached the wire, and schedules the close callback
\* set at line 140 (self._on_close), once.  On a closed stream it does
\* nothing.
connection_close ==
    IF stream_closed
    THEN UNCHANGED <<stream_vars, wire_out>>
    ELSE /\ stream_closed' = TRUE
         /\ close_notify' = IF close_notify = "armed" THEN "scheduled" ELSE close_notify
         /\ IF drain.pc = "write"
            THEN \E n \in 0..(Len(encode(drain.item.frame)) - 1) :
                    wire_out' = wire_out \o SubSeq(encode(drain.item.frame), 1, n)
            ELSE UNCHANGED wire_out

\* The peer disconnects, or the stream fails.
remote_disconnect ==
    /\ ~stream_closed
    /\ connection_close
    /\ UNCHANGED <<conn_vars, coro_vars, reader_vars, hist_vars>>
    /\ UNCHANGED <<writer_draining, drain_tasks, writer_queue, id_sequence, drain, handles, put_log>>

(* ------------------------------------------------------------------ *)
(* TornadoConnection: close and shutdown                              *)
(* ------------------------------------------------------------------ *)

\* Not the code: a close that runs the shutdown itself, whatever closed is.
close_with_shutdown ==
    /\ close_calls < MaxCloses
    /\ close_calls' = close_calls + 1
    /\ connection_close
    /\ closed' = TRUE
    /\ tombstones' = {}
    /\ futures' = [f \in DOMAIN futures |->
                     IF f \in {e.fut : e \in outstanding}
                     THEN [state |-> "network",
                           completions |-> futures[f].completions + 1]
                     ELSE futures[f]]
    /\ outstanding' = {}
    /\ messages' = <<>>
    /\ on_close_runs' = on_close_runs + 1
    /\ close_cb_calls' = IF close_cb # 0 THEN close_cb_calls + 1 ELSE close_cb_calls
    /\ UNCHANGED <<loop_running, msg_getters, awaits, close_cb, remote,
                   response_buffer, timers, inbound_count, late, error_events, idle_timeouts, rejected>>
    /\ UNCHANGED <<coro_vars, reader_vars>>
    /\ UNCHANGED <<writer_draining, drain_tasks, writer_queue, id_sequence, drain, handles, put_log>>

\* TornadoConnection.close
close ==
    /\ close_calls < MaxCloses
    /\ close_calls' = close_calls + 1
    /\ IF ~closed
       THEN connection_close
       ELSE UNCHANGED <<stream_vars, wire_out>>
    /\ UNCHANGED <<conn_vars, coro_vars, reader_vars>>
    /\ UNCHANGED <<on_close_runs, close_cb_calls, inbound_count, late, error_events, idle_timeouts, rejected>>
    /\ UNCHANGED <<writer_draining, drain_tasks, writer_queue, id_sequence, drain, handles, put_log>>

\* Callbacks a caller registers.
Callbacks == {1, 2}

\* Not the code: a set_close_callback without its assertion.
set_close_callback_unchecked(cb) ==
    /\ close_cb' = cb
    /\ rejected' = IF close_cb # 0 THEN rejected \cup {"set_close_callback"}
                   ELSE rejected
    /\ UNCHANGED <<closed, loop_running, outstanding, futures, tombstones, messages,
                   msg_getters, awaits, remote, response_buffer, timers>>
    /\ UNCHANGED <<coro_vars, reader_vars, writer_vars, stream_vars>>
    /\ UNCHANGED <<on_close_runs, close_cb_calls, close_calls, inbound_count, late,
                   error_events, idle_timeouts>>

\* TornadoConnection.set_close_callback; the assertion fails when a callback
\* is set already.
set_close_callback(cb) ==
    /\ IF close_cb # 0
       THEN /\ rejected' = rejected \cup {"set_close_callback"}
            /\ UNCHANGED close_cb
       ELSE /\ close_cb' = cb
            /\ UNCHANGED rejected
    /\ UNCHANGED <<closed, loop_running, outstanding, futures, tombstones, messages,
                   msg_getters, awaits, remote, response_buffer, timers>>
    /\ UNCHANGED <<coro_vars, reader_vars, writer_vars, stream_vars>>
    /\ UNCHANGED <<on_close_runs, close_cb_calls, close_calls, inbound_count, late,
                   error_events, idle_timeouts>>

\* future.set_exception(NetworkError(...)) for the futures in fs.
cancel_all(fs, S) ==
    [f \in DOMAIN fs |->
        IF f \in S
        THEN [state |-> "network", completions |-> fs[f].completions + 1]
        ELSE fs[f]]

\* TornadoConnection._on_close, run by the stream as its close callback.
\* The loop over the table calls set_exception on every future, done or not.
\* On a future that is done already, set_exception stores the exception and
\* then, depending on the tornado release, returns or raises (the callback
\* list of a done Future is None): when it raises, _on_close ends there,
\* after the entries the iteration visited first.
_on_close ==
    /\ close_notify = "scheduled"
    /\ close_notify' = "ran"
    /\ on_close_runs' = on_close_runs + 1
    /\ closed' = TRUE
    /\ tombstones' = {}
    /\ LET stale == {e \in outstanding : ~running(futures, e.fut)}
           pending == outstanding \ stale
       IN \/ /\ futures' = cancel_all(futures, {e.fut : e \in outstanding})
             /\ outstanding' = {}
             /\ messages' = <<>>
             /\ close_cb_calls' = IF close_cb # 0 THEN close_cb_calls + 1
                                  ELSE close_cb_calls
          \/ /\ \E e \in stale : \E S \in SUBSET pending :
                   futures' = cancel_all(futures, {x.fut : x \in S \cup {e}})
             /\ UNCHANGED <<outstanding, messages, close_cb_calls>>
    /\ UNCHANGED <<loop_running, msg_getters, awaits, close_cb, remote,
                   response_buffer, timers>>
    /\ UNCHANGED <<coro_vars, reader_vars, writer_vars, stream_closed, close_calls,
                   inbound_count, late, error_events, idle_timeouts, rejected>>

(* ------------------------------------------------------------------ *)
(* TornadoConnection: write, send, await                              *)
(* ------------------------------------------------------------------ *)

\* Frames one message is split into, at most.
MaxFrags == 2

ContinueType(t) ==
    IF t \in CALL_REQ_TYPES THEN "CALL_REQ_CONTINUE"
    ELSE IF t \in CALL_RES_TYPES THEN "CALL_RES_CONTINUE"
    ELSE t

\* message_factory.fragment(message), for a message that takes n frames: the
\* head frame and n - 1 continue frames of the same id; all but the last
\* carry the fragment flag.
fragment(message, n) ==
    [k \in 1..n |->
        [message EXCEPT
            !.message_type = IF k = 1 THEN @ ELSE ContinueType(@),
            !.flags = IF k < n THEN "fragment" ELSE @]]

RECURSIVE put_all(_, _)
put_all(w, frames) ==
    IF frames = <<>> THEN w ELSE put_all(put(w, Head(frames)), Tail(frames))

\* TornadoConnection.write, on the Writer w.
write_message(w, message, n) ==
    LET a == AssignId(message.id, w.id_sequence)
    IN put_all([w EXCEPT !.id_sequence = a.seq],
               fragment([message EXCEPT !.id = a.id], n))

\* Frames the handshake in progress will still put (expect_handshake answers
\* after its INIT_REQ): callers leave room for them under MaxPuts.
Reserved ==
    Cardinality({k \in DOMAIN hs : hs[k].kind = "expect" /\ hs[k].pc \in {"wait", "got"}})

RoomFor(n) == Len(handles) + n + Reserved <= MaxPuts

\* TornadoConnection.write, called to answer a call.
write(message, n) ==
    /\ RoomFor(n)
    /\ SetWriter(write_message(WriterState, message, n))
    /\ UNCHANGED <<conn_vars, coro_vars, reader_vars, stream_vars, hist_vars, wire_out>>

\* TornadoConnection.ping
ping ==
    /\ RoomFor(1)
    /\ SetWriter(put(WriterState, Message("PING_REQ", 0, "none", "full")))
    /\ UNCHANGED <<conn_vars, coro_vars, reader_vars, stream_vars, hist_vars, wire_out>>

\* TornadoConnection.pong
pong ==
    /\ RoomFor(1)
    /\ SetWriter(put(WriterState, Message("PING_RES", 0, "none", "full")))
    /\ UNCHANGED <<conn_vars, coro_vars, reader_vars, stream_vars, hist_vars, wire_out>>

\* TornadoConnection.send_error: build_raw_error_message keeps the id of the
\* error.
send_error(id) ==
    /\ RoomFor(1)
    /\ SetWriter(put(WriterState, Message("ERROR", id, "none", "full")))
    /\ UNCHANGED <<conn_vars, coro_vars, reader_vars, stream_vars, hist_vars, wire_out>>

\* Not the code: a send without the assertion on the id; the new future
\* takes the place of the one the table holds.
send_unchecked(message, n) ==
    /\ Len(futures) < MaxSends
    /\ RoomFor(n)
    /\ IF ~loop_running \/ message.message_type \notin CALL_REQ_TYPES
       THEN /\ rejected' = rejected \cup {"send"}
            /\ UNCHANGED <<outstanding, futures, writer_vars>>
       ELSE LET a == AssignId(message.id, id_sequence)
                future == Len(futures) + 1
            IN /\ futures' = Append(futures, NewFuture)
               /\ outstanding' = SetItem(outstanding, a.id, future)
               /\ SetWriter(write_message(
                      [WriterState EXCEPT !.id_sequence = a.seq],
                      [message EXCEPT !.id = a.id], n))
               /\ rejected' = IF HasKey(outstanding, a.id)
                              THEN rejected \cup {"send"} ELSE rejected
               /\ UNCHANGED wire_out
    /\ UNCHANGED <<closed, loop_running, tombstones, messages, msg_getters, awaits,
                   close_cb, remote, response_buffer, timers>>
    /\ UNCHANGED <<coro_vars, reader_vars, stream_vars>>
    /\ UNCHANGED <<on_close_runs, close_cb_calls, close_calls, inbound_count, late,
                   error_events, idle_timeouts>>

\* TornadoConnection.send.  A failed assertion leaves what was done before it:
\* the id taken from the counter.
send(message, n) ==
    /\ Len(futures) < MaxSends
    /\ RoomFor(n)
    /\ IF ~loop_running \/ message.message_type \notin CALL_REQ_TYPES
       THEN /\ rejected' = rejected \cup {"send"}
            /\ UNCHANGED <<outstanding, futures, writer_vars>>
       ELSE LET a == AssignId(message.id, id_sequence)
                future == Len(futures) + 1
            IN IF HasKey(outstanding, a.id)
               THEN /\ rejected' = rejected \cup {"send"}
                    /\ id_sequence' = a.seq
                    /\ UNCHANGED <<outstanding, futures, writer_draining, drain_tasks,
                                   writer_queue, drain, handles, wire_out, put_log>>
               ELSE /\ futures' = Append(futures, NewFuture)
                    /\ outstanding' = SetItem(outstanding, a.id, future)
                    /\ SetWriter(write_message(
                           [WriterState EXCEPT !.id_sequence = a.seq],
                           [message EXCEPT !.id = a.id], n))
                    /\ UNCHANGED <<wire_out, rejected>>
    /\ UNCHANGED <<closed, loop_running, tombstones, messages, msg_getters, awaits,
                   close_cb, remote, response_buffer, timers>>
    /\ UNCHANGED <<coro_vars, reader_vars, stream_vars>>
    /\ UNCHANGED <<on_close_runs, close_cb_calls, close_calls, inbound_count, late,
                   error_events, idle_timeouts>>

\* StreamConnection.send_request, for a request whose arguments are in
\* memory: _stream writes its one message with the id of the request, in n
\* frames.  request.ttl, when set, registers the timeout.
send_request(id, ttl, n) ==
    /\ Len(futures) < MaxSends
    /\ RoomFor(n)
    /\ IF ~loop_running \/ HasKey(outstanding, id)
       THEN UNCHANGED <<outstanding, futures, timers, writer_vars>>
       ELSE LET future == Len(futures) + 1
            IN /\ futures' = Append(futures, NewFuture)
               /\ outstanding' = SetItem(outstanding, id, future)
               /\ SetWriter(write_message(WriterState,
                                          Message("CALL_REQ", id, "none", "full"), n))
               /\ timers' = IF ttl # 0
                            THEN timers \cup {[id |-> id, ttl |-> ttl, fut |-> future]}
                            ELSE timers
               /\ UNCHANGED wire_out
    /\ UNCHANGED <<closed, loop_running, tombstones, messages, msg_getters, awaits,
                   close_cb, remote, response_buffer>>
    /\ UNCHANGED <<coro_vars, reader_vars, stream_vars, hist_vars>>

\* StreamConnection.remove_outstanding_request, called by the owner of a
\* request once the request is over.
remove_outstanding_request(id) ==
    /\ HasKey(outstanding, id)
    /\ ~running(futures, Lookup(outstanding, id))
    /\ outstanding' = Pop(outstanding, id)
    /\ UNCHANGED <<closed, loop_running, futures, tombstones, messages, msg_getters,
                   awaits, close_cb, remote, response_buffer, timers>>
    /\ UNCHANGED <<coro_vars, reader_vars, writer_vars, stream_vars, hist_vars>>

\* TornadoConnection.await: the getter of _messages once the loop runs, of
\* the Reader before.
await ==
    /\ Len(awaits) < MaxAwaits
    /\ LET k == Len(awaits) + 1
       IN IF loop_running
          THEN /\ IF messages # <<>>
                  THEN /\ awaits' = Append(awaits, [state |-> "message",
                                                    msg |-> Head(messages)])
                       /\ messages' = Tail(messages)
                       /\ UNCHANGED msg_getters
                  ELSE /\ awaits' = Append(awaits, [state |-> "pending", msg |-> NoMsg])
                       /\ msg_getters' = Append(msg_getters, k)
                       /\ UNCHANGED messages
               /\ UNCHANGED reader_vars
          ELSE /\ reader_filling' = TRUE
               /\ fill_tasks' = IF reader_filling THEN fill_tasks ELSE fill_tasks + 1
               /\ IF reader_queue # <<>>
                  THEN /\ awaits' = Append(awaits, [state |-> "message",
                                                    msg |-> Head(reader_queue)])
                       /\ reader_queue' = Tail(reader_queue)
                       /\ UNCHANGED reader_getters
                  ELSE /\ awaits' = Append(awaits, [state |-> "pending", msg |-> NoMsg])
                       /\ reader_getters' = Append(reader_getters,
                                                   [who |-> "await", k |-> k])
                       /\ UNCHANGED reader_queue
               /\ UNCHANGED <<messages, msg_getters>>
    /\ UNCHANGED <<closed, loop_running, outstanding, futures, tombstones, close_cb,
                   remote, response_buffer, timers>>
    /\ UNCHANGED <<coro_vars, writer_vars, stream_vars, hist_vars>>

(* ------------------------------------------------------------------ *)
(* StreamConnection: timeouts                                         *)
(* ------------------------------------------------------------------ *)

\* Not the code: a timeout that does not test future.running().
_request_timed_out_unguarded(t) ==
    /\ t \in timers
    /\ timers' = timers \ {t}
    /\ futures' = [futures EXCEPT ![t.fut] =
                      [state |-> "timeout", completions |-> @.completions + 1]]
    /\ tombstones' = tombstone_add(tombstones, t.id, t.ttl)
    /\ idle_timeouts' = (idle_timeouts \/ ~running(futures, t.fut))
    /\ UNCHANGED <<closed, loop_running, outstanding, messages, msg_getters, awaits,
                   close_cb, remote, response_buffer>>
    /\ UNCHANGED <<coro_vars, reader_vars, writer_vars, stream_vars>>
    /\ UNCHANGED <<on_close_runs, close_cb_calls, close_calls, inbound_count, late,
                   error_events, rejected>>

\* StreamConnection._request_timed_out, run by the IOLoop when the ttl of
\* the timeout t is over.
_request_timed_out(t) ==
    /\ t \in timers
    /\ timers' = timers \ {t}
    /\ IF ~running(futures, t.fut)
       THEN /\ idle_timeouts' = TRUE
            /\ UNCHANGED <<futures, tombstones>>
       ELSE /\ futures' = set_done(futures, t.fut, "timeout")
            /\ tombstones' = tombstone_add(tombstones, t.id, t.ttl)
            /\ UNCHANGED idle_timeouts
    /\ UNCHANGED <<closed, loop_running, outstanding, messages, msg_getters, awaits,
                   close_cb, remote, response_buffer>>
    /\ UNCHANGED <<coro_vars, reader_vars, writer_vars, stream_vars>>
    /\ UNCHANGED <<on_close_runs, close_cb_calls, close_calls, inbound_count, late,
                   error_events, rejected>>

\* Not the code: a completion that leaves a tombstone when it removes the
\* timer.
remove_timeout_tombstoning(t) ==
    /\ t \in timers
    /\ ~running(futures, t.fut)
    /\ timers' = timers \ {t}
    /\ tombstones' = tombstone_add(tombstones, t.id, t.ttl)
    /\ UNCHANGED <<closed, loop_running, outstanding, futures, messages,
                   msg_getters, awaits, close_cb, remote, response_buffer>>
    /\ UNCHANGED <<coro_vars, reader_vars, writer_vars, stream_vars, hist_vars>>

\* The callback _add_timeout adds to the future: io_loop.remove_timeout(t),
\* run once the future is done.
remove_timeout(t) ==
    /\ t \in timers
    /\ ~running(futures, t.fut)
    /\ timers' = timers \ {t}
    /\ UNCHANGED <<closed, loop_running, outstanding, futures, tombstones, messages,
                   msg_getters, awaits, close_cb, remote, response_buffer>>
    /\ UNCHANGED <<coro_vars, reader_vars, writer_vars, stream_vars, hist_vars>>

\* The ttl of a tombstone is over: the Cemetery does not contain it any more.
tombstone_expire(e) ==
    /\ e \in tombstones
    /\ tombstones' = tombstones \ {e}
    /\ UNCHANGED <<closed, loop_running, outstanding, futures, messages, msg_getters,
                   awaits, close_cb, remote, response_buffer, timers>>
    /\ UNCHANGED <<coro_vars, reader_vars, writer_vars, stream_vars, hist_vars>>

(* ------------------------------------------------------------------ *)
(* StreamConnection: _stream                                          *)
(* ------------------------------------------------------------------ *)

\* The non-empty chunks one argument stream yields at most.
MaxChunks == 2

\* context.argstreams: for each argument stream, in order, the number of
\* non-empty chunks its read() still yields before the empty one.
ArgStreams == UNION {[1..n -> 0..MaxChunks] : n \in 1..2}

\* message_factory.build_raw_message(context, args, is_completed): the head
\* message of the call first and continue messages after it, with the
\* fragment flag unless is_completed.
build_raw_message(context, is_completed) ==
    Message(IF context.state = "init"
            THEN context.message_type
            ELSE ContinueType(context.message_type),
            context.id,
            IF is_completed THEN "none" ELSE "fragment",
            "full")

\* message = message_factory.build_raw_message(...); yield self.write(message)
\* up to the yield: write puts the n frames of the message and _stream
\* waits for the future of the last put.
build_and_write(context, is_completed, n) ==
    LET message == build_raw_message(context, is_completed)
        w == write_message(WriterState, message, n)
    IN /\ RoomFor(n)
       /\ SetWriter(w)
       /\ streaming' = [context EXCEPT
                            !.pc = IF is_completed THEN "write_last" ELSE "write",
                            !.state = "streaming",
                            !.done = Len(w.handles),
                            !.written = Append(@, message.flags)]

\* _stream called for a context: args = [] and the first argstream.read().
_stream(message_type, id, argstreams) ==
    streaming' = [NoStream EXCEPT !.pc = "first", !.message_type = message_type,
                                  !.id = id, !.argstreams = argstreams]

\* StreamConnection.stream_request: the request is streamed with the
\* request message factory.
stream_request(id, argstreams) ==
    /\ streaming.pc = "idle"
    /\ _stream("CALL_REQ", id, argstreams)
    /\ UNCHANGED <<conn_vars, hs, loop, reader_vars, writer_vars, stream_vars, hist_vars>>

\* StreamConnection.post_response: the response is streamed with the
\* response message factory.
post_response(id, argstreams) ==
    /\ streaming.pc = "idle"
    /\ _stream("CALL_RES", id, argstreams)
    /\ UNCHANGED <<conn_vars, hs, loop, reader_vars, writer_vars, stream_vars, hist_vars>>

\* _stream resumed by argstream.read(): the read raises a TChannelError
\* (caught and logged, the coroutine returns), or yields a chunk.  The
\* first chunk of an argument stream is appended to args; each later
\* non-empty chunk flushes args as a message with the fragment flag; an
\* empty chunk moves to the next argument stream, and after the last one the
\* final message is built and written.
argstream_read(raises, n) ==
    /\ streaming.pc \in {"first", "next"}
    /\ LET c == streaming
           left == Head(c.argstreams)
           took == [c EXCEPT !.argstreams = <<left - 1>> \o Tail(@)]
       IN IF raises
          THEN /\ streaming' = [c EXCEPT !.pc = "stopped"]
               /\ UNCHANGED writer_vars
          ELSE IF c.pc = "first"
          THEN /\ streaming' = [(IF left > 0 THEN took ELSE c) EXCEPT
                                   !.pc = "next", !.args = @ + 1]
               /\ UNCHANGED writer_vars
          ELSE IF left > 0
          THEN /\ build_and_write(took, FALSE, n)
               /\ UNCHANGED wire_out
          ELSE IF Len(c.argstreams) > 1
          THEN /\ streaming' = [c EXCEPT !.argstreams = Tail(@), !.pc = "first"]
               /\ UNCHANGED writer_vars
          ELSE /\ build_and_write(c, TRUE, n)
               /\ UNCHANGED wire_out
    /\ UNCHANGED <<conn_vars, hs, loop, reader_vars, stream_vars, hist_vars>>

\* Not the code: a _stream that does not wait for the future of write.
write_resolved_unawaited ==
    /\ streaming.pc \in {"write", "write_last"}
    /\ streaming' = IF streaming.pc = "write"
                    THEN [streaming EXCEPT !.pc = "next", !.args = 1]
                    ELSE [streaming EXCEPT !.pc = "returned", !.state = "completed"]
    /\ UNCHANGED <<conn_vars, hs, loop, reader_vars, writer_vars, stream_vars, hist_vars>>

\* _stream resumed by the future of write: an exception of the write (the
\* stream was closed) is raised in _stream, which does not catch it; after
\* a fragment args = [chunk] and the next chunk is read; after the final
\* message context.state = StreamState.completed.
write_resolved ==
    /\ streaming.pc \in {"write", "write_last"}
    /\ handles[streaming.done] # "pending"
    /\ streaming' = IF handles[streaming.done] = "failed"
                    THEN [streaming EXCEPT !.pc = "raised"]
                    ELSE IF streaming.pc = "write"
                    THEN [streaming EXCEPT !.pc = "next", !.args = 1]
                    ELSE [streaming EXCEPT !.pc = "returned", !.state = "completed"]
    /\ UNCHANGED <<conn_vars, hs, loop, reader_vars, writer_vars, stream_vars, hist_vars>>

(* ------------------------------------------------------------------ *)
(* TornadoConnection: handshake                                       *)
(* ------------------------------------------------------------------ *)

\* self.reader.get() of a handshake coroutine: fill is started, and the
\* coroutine waits for the item (an item queued already is its next input).
handshake_get(kind) ==
    /\ reader_filling' = TRUE
    /\ fill_tasks' = IF reader_filling THEN fill_tasks ELSE fill_tasks + 1
    /\ IF reader_queue # <<>>
       THEN /\ hs' = Append(hs, [pc |-> "got", kind |-> kind,
                                 msg |-> Head(reader_queue)])
            /\ reader_queue' = Tail(reader_queue)
            /\ UNCHANGED reader_getters
       ELSE /\ hs' = Append(hs, [pc |-> "wait", kind |-> kind, msg |-> NoMsg])
            /\ reader_getters' = Append(reader_getters, HsGetter(Len(hs) + 1))
            /\ UNCHANGED reader_queue

\* TornadoConnection.initiate_handshake, up to its yield.
initiate_handshake ==
    /\ Len(hs) < MaxHandshakes
    /\ SetWriter(put(WriterState, Message("INIT_REQ", 0, "none", "full")))
    /\ handshake_get("initiate")
    /\ UNCHANGED <<conn_vars, loop, streaming, stream_vars, hist_vars, wire_out>>

\* TornadoConnection.expect_handshake, up to its yield.
expect_handshake ==
    /\ Len(hs) < MaxHandshakes
    /\ handshake_get("expect")
    /\ UNCHANGED <<conn_vars, loop, streaming, writer_vars, stream_vars, hist_vars>>

\* The message type a handshake waits for.
Expected(kind) == IF kind = "initiate" THEN "INIT_RES" ELSE "INIT_REQ"

\* Not the code: headers that are never checked.
headers_unchecked(message) == TRUE

\* Not the code: a check of host_port alone.
headers_host_port_only(message) == message.headers # "no_host_port"

\* _extract_handshake_headers raises on a missing host_port or process_name.
headers_valid(message) == message.headers = "full"

\* Not the code: an INIT_RES that takes its id from the counter of the Writer.
init_response_fresh_id(init_req) == Message("INIT_RES", 0, "none", "full")

\* messages.InitResponseMessage(PROTOCOL_VERSION, headers, init_req.id)
init_response(init_req) == Message("INIT_RES", init_req.id, "none", "full")

\* The handshake coroutine resumed with the message of the peer: the type
\* and the headers are checked (InvalidMessageError ends the coroutine),
\* the remote fields are set, expect_handshake puts its INIT_RES with the id
\* of the INIT_REQ, and self._loop() runs up to its first pending get.
handshake_resume(k) ==
    /\ k \in DOMAIN hs
    /\ hs[k].pc = "got"
    /\ IF hs[k].msg.message_type # Expected(hs[k].kind) \/ ~headers_valid(hs[k].msg)
       THEN /\ hs' = [hs EXCEPT ![k].pc = "failed", ![k].msg = NoMsg]
            /\ UNCHANGED <<loop_running, outstanding, futures, messages, msg_getters,
                           awaits, remote, response_buffer, loop, reader_queue,
                           reader_getters, writer_vars, late, error_events, rejected>>
       ELSE LET r == _loop(DispatchState, reader_queue)
            IN /\ hs' = [hs EXCEPT ![k].pc = "done"]
               /\ remote' = "peer"
               /\ IF hs[k].kind = "expect"
                  THEN SetWriter(put(WriterState, init_response(hs[k].msg)))
                  ELSE UNCHANGED <<writer_draining, drain_tasks, writer_queue, id_sequence, drain,
                                   handles, put_log>>
               /\ UNCHANGED wire_out
               /\ loop_running' = TRUE
               /\ SetDispatch(r.d)
               /\ loop' = Append(loop, [pc |-> r.pc, msg |-> NoMsg])
               /\ reader_queue' = r.queue
               /\ reader_getters' = IF r.pc = "get"
                                    THEN Append(reader_getters,
                                                LoopGetter(Len(loop) + 1))
                                    ELSE reader_getters
    /\ UNCHANGED <<closed, tombstones, close_cb, timers, streaming, reader_filling,
                   fill_tasks>>
    /\ UNCHANGED <<stream_vars, on_close_runs, close_cb_calls, close_calls,
                   inbound_count, error_events, idle_timeouts, rejected>>

(* ------------------------------------------------------------------ *)
(* Specification                                                      *)
(* ------------------------------------------------------------------ *)

\* TornadoConnection.__init__ on an open stream, but for the id counter.
InitConnection ==
    /\ closed = FALSE
    /\ loop_running = FALSE
    /\ outstanding = {}
    /\ futures = <<>>
    /\ tombstones = {}
    /\ messages = <<>>
    /\ msg_getters = <<>>
    /\ awaits = <<>>
    /\ close_cb = 0
    /\ remote = "sockname"
    /\ response_buffer = {}
    /\ timers = {}
    /\ hs = <<>>
    /\ loop = <<>>
    /\ reader_filling = FALSE
    /\ fill_tasks = 0
    /\ reader_queue = <<>>
    /\ reader_getters = <<>>
    /\ writer_draining = FALSE
    /\ drain_tasks = 0
    /\ writer_queue = <<>>
    /\ drain = [pc |-> "off", item |-> NoItem]
    /\ handles = <<>>
    /\ wire_out = <<>>
    /\ stream_closed = FALSE
    /\ close_notify = "armed"
    /\ put_log = <<>>
    /\ on_close_runs = 0
    /\ close_cb_calls = 0
    /\ close_calls = 0
    /\ inbound_count = 0
    /\ late = FALSE
    /\ error_events = 0
    /\ rejected = {}
    /\ idle_timeouts = FALSE
    /\ streaming = NoStream

\* Values of the id counter next_message_id is applied to: the first and the
\* last IdSpan + 1 values the counter takes.
IdSpan == 60

SampleIdSequences ==
    (0..IdSpan) \cup ((MAX_MESSAGE_ID - 1 - IdSpan)..(MAX_MESSAGE_ID - 1))

Init ==
    /\ InitConnection
    /\ id_sequence \in InitialIdSequences

\* Writer.next_message_id called by the owner of a request, to give the
\* request its id.
take_message_id ==
    /\ id_sequence \in SampleIdSequences
    /\ id_sequence' = next_message_id(id_sequence)
    /\ UNCHANGED <<conn_vars, coro_vars, reader_vars, stream_vars, hist_vars>>
    /\ UNCHANGED <<writer_draining, drain_tasks, writer_queue, drain, handles, wire_out, put_log>>

SendMessages ==
    {Message(t, i, "none", "full") : t \in {"CALL_REQ", "CALL_RES"}, i \in CallerIds}

\* The messages of callers that use send as documented.
CallRequests == {Message("CALL_REQ", i, "none", "full") : i \in CallerIds}

Next ==
    \/ initiate_handshake
    \/ expect_handshake
    \/ \E k \in 1..MaxHandshakes : handshake_resume(k)
    \/ \E m \in PeerMessages : keep_reading(m)
    \/ \E k \in 1..MaxHandshakes : loop_resume(k)
    \/ \E m \in SendMessages, n \in 1..MaxFrags : send(m, n)
    \/ \E i \in CallerIds, ttl \in Ttls, n \in 1..MaxFrags : send_request(i, ttl, n)
    \/ \E i \in CallerIds : remove_outstanding_request(i)
    \/ await
    \/ \E i \in CallerIds, n \in 1..MaxFrags :
          write(Message("CALL_RES", i, "none", "full"), n)
    \/ ping
    \/ pong
    \/ \E i \in CallerIds : send_error(i)
    \/ take_message_id
    \/ next_write
    \/ on_message
    \/ on_write
    \/ \E t \in timers : _request_timed_out(t)
    \/ \E t \in timers : remove_timeout(t)
    \/ \E e \in tombstones : tombstone_expire(e)
    \/ \E cb \in Callbacks : set_close_callback(cb)
    \/ close
    \/ remote_disconnect
    \/ _on_close

Spec == Init /\ [][Next]_vars

\* The connection from the handshake to the shutdown: calls and responses.
\* Here and in the specifications below the owner of the connection calls
\* one handshake, as TornadoConnection.outgoing does; here it calls send
\* after the handshake, with a CALL_REQ.
NextSlots ==
    \/ (hs = <<>> /\ initiate_handshake)
    \/ (hs = <<>> /\ expect_handshake)
    \/ \E k \in 1..MaxHandshakes : handshake_resume(k)
    \/ \E m \in PeerMessages : keep_reading(m)
    \/ \E k \in 1..MaxHandshakes : loop_resume(k)
    \/ \E m \in CallRequests : loop_running /\ send(m, 1)
    \/ \E i \in CallerIds, ttl \in Ttls : send_request(i, ttl, 1)
    \/ \E i \in CallerIds : remove_outstanding_request(i)
    \/ \E t \in timers : _request_timed_out(t)
    \/ \E t \in timers : remove_timeout(t)
    \/ \E e \in tombstones : tombstone_expire(e)
    \/ remote_disconnect
    \/ _on_close

SlotSpec == Init /\ [][NextSlots]_vars

\* The internal callbacks of SlotSpec run when they can, timeouts fire, and
\* the stream is closed in the end.
FairSlotSpec ==
    /\ SlotSpec
    /\ WF_vars(\E k \in 1..MaxHandshakes : handshake_resume(k))
    /\ WF_vars(\E k \in 1..MaxHandshakes : loop_resume(k))
    /\ WF_vars(\E t \in timers : _request_timed_out(t))
    /\ WF_vars(remote_disconnect)
    /\ WF_vars(_on_close)

\* The connection closing: calls in flight, timeouts, close and the close
\* callback.
NextClose ==
    \/ (hs = <<>> /\ initiate_handshake)
    \/ (hs = <<>> /\ expect_handshake)
    \/ \E k \in 1..MaxHandshakes : handshake_resume(k)
    \/ \E m \in HandshakeMessages : keep_reading(m)
    \/ \E m \in SendMessages : send(m, 1)
    \/ \E i \in CallerIds, ttl \in Ttls : send_request(i, ttl, 1)
    \/ \E t \in timers : _request_timed_out(t)
    \/ \E t \in timers : remove_timeout(t)
    \/ \E cb \in Callbacks : set_close_callback(cb)
    \/ close
    \/ remote_disconnect
    \/ _on_close

CloseSpec == Init /\ [][NextClose]_vars

\* Inbound calls and await.
NextAwait ==
    \/ (hs = <<>> /\ initiate_handshake)
    \/ (hs = <<>> /\ expect_handshake)
    \/ \E k \in 1..MaxHandshakes : handshake_resume(k)
    \/ \E m \in PeerMessages : keep_reading(m)
    \/ \E k \in 1..MaxHandshakes : loop_resume(k)
    \/ await
    \/ close
    \/ remote_disconnect
    \/ _on_close

AwaitSpec == Init /\ [][NextAwait]_vars

FairAwaitSpec ==
    /\ AwaitSpec
    /\ WF_vars(\E k \in 1..MaxHandshakes : handshake_resume(k))
    /\ WF_vars(\E k \in 1..MaxHandshakes : loop_resume(k))
    /\ WF_vars(remote_disconnect)
    /\ WF_vars(_on_close)

\* The Writer: the callers of put and the drain callbacks.
NextWriter ==
    \/ (hs = <<>> /\ initiate_handshake)
    \/ (hs = <<>> /\ expect_handshake)
    \/ \E k \in 1..MaxHandshakes : handshake_resume(k)
    \/ \E m \in HandshakeMessages : keep_reading(m)
    \/ \E m \in CallRequests : loop_running /\ send(m, 1)
    \/ \E n \in 1..MaxFrags : write(Message("CALL_RES", 1, "none", "full"), n)
    \/ ping
    \/ pong
    \/ send_error(1)
    \/ next_write
    \/ on_message
    \/ on_write
    \/ remote_disconnect
    \/ _on_close

WriterSpec == Init /\ [][NextWriter]_vars

FairWriterSpec ==
    /\ WriterSpec
    /\ WF_vars(next_write)
    /\ WF_vars(on_message)
    /\ WF_vars(on_write)
    /\ WF_vars(remote_disconnect)
    /\ WF_vars(_on_close)

\* Pings: the peer sends PING_REQ, this side pings and pongs.
NextPing ==
    \/ (hs = <<>> /\ initiate_handshake)
    \/ (hs = <<>> /\ expect_handshake)
    \/ \E k \in 1..MaxHandshakes : handshake_resume(k)
    \/ \E m \in HandshakeMessages \cup PingMessages : keep_reading(m)
    \/ \E k \in 1..MaxHandshakes : loop_resume(k)
    \/ ping
    \/ pong
    \/ next_write
    \/ on_message
    \/ on_write
    \/ remote_disconnect
    \/ _on_close

PingSpec == Init /\ [][NextPing]_vars

\* The callbacks of the connection run when they can.
FairPingSpec ==
    /\ PingSpec
    /\ WF_vars(\E k \in 1..MaxHandshakes : handshake_resume(k))
    /\ WF_vars(\E k \in 1..MaxHandshakes : loop_resume(k))
    /\ WF_vars(next_write)
    /\ WF_vars(on_message)
    /\ WF_vars(on_write)
    /\ WF_vars(_on_close)

\* The tasks of a connection under any sequence of handshake, await, send
\* and write calls.
NextTasks ==
    \/ initiate_handshake
    \/ expect_handshake
    \/ \E k \in 1..MaxHandshakes : handshake_resume(k)
    \/ \E t \in {"INIT_REQ", "INIT_RES"} : keep_reading(Message(t, 1, "none", "full"))
    \/ \E k \in 1..MaxHandshakes : loop_resume(k)
    \/ await
    \/ send(Message("CALL_REQ", 1, "none", "full"), 1)
    \/ write(Message("CALL_RES", 1, "none", "full"), 1)
    \/ next_write
    \/ on_message
    \/ on_write

TaskSpec == Init /\ [][NextTasks]_vars

\* The shutdown of a connection that holds calls in flight, timed-out
\* calls and inbound calls nobody awaited, with its close callback.
NextShutdown ==
    \/ (hs = <<>> /\ initiate_handshake)
    \/ (hs = <<>> /\ expect_handshake)
    \/ \E k \in 1..MaxHandshakes : handshake_resume(k)
    \/ \E m \in HandshakeMessages \cup CallRequests : keep_reading(m)
    \/ \E k \in 1..MaxHandshakes : loop_resume(k)
    \/ \E i \in CallerIds, ttl \in Ttls : send_request(i, ttl, 1)
    \/ \E t \in timers : _request_timed_out(t)
    \/ \E t \in timers : remove_timeout(t)
    \/ \E cb \in Callbacks : set_close_callback(cb)
    \/ close
    \/ remote_disconnect
    \/ _on_close

ShutdownSpec == Init /\ [][NextShutdown]_vars

\* Inbound calls: the peer sends its calls in wire order while this side
\* holds slots of the same ids and awaits.
NextCalls ==
    \/ (hs = <<>> /\ initiate_handshake)
    \/ (hs = <<>> /\ expect_handshake)
    \/ \E k \in 1..MaxHandshakes : handshake_resume(k)
    \/ \E t \in {"INIT_REQ", "INIT_RES"} : keep_reading(Message(t, 1, "none", "full"))
    \/ \E m \in InboundCalls : m.id = inbound_count + 1 /\ keep_reading(m)
    \/ \E k \in 1..MaxHandshakes : loop_resume(k)
    \/ \E i \in 2..MaxInbound : send_request(i, 0, 1)
    \/ await

CallSpec == Init /\ [][NextCalls]_vars

\* The responder side of the handshake: the first frame of the peer, the
\* INIT_RES and its way to the wire; ping() before the handshake moves the
\* id counter.
NextExpect ==
    \/ (hs = <<>> /\ expect_handshake)
    \/ \E k \in 1..MaxHandshakes : handshake_resume(k)
    \/ \E m \in FirstMessages : inbound_count = 0 /\ keep_reading(m)
    \/ \E m \in PingMessages : keep_reading(m)
    \/ \E k \in 1..MaxHandshakes : loop_resume(k)
    \/ ping
    \/ next_write
    \/ on_message
    \/ on_write

ExpectSpec == Init /\ [][NextExpect]_vars

\* Streaming one call: the reads of its argument streams, the writes and
\* the Writer, on a stream the peer may close.
NextStream ==
    \/ \E a \in ArgStreams : stream_request(1, a)
    \/ \E a \in ArgStreams : post_response(1, a)
    \/ \E raises \in BOOLEAN, n \in 1..MaxFrags : argstream_read(raises, n)
    \/ write_resolved
    \/ next_write
    \/ on_message
    \/ on_write
    \/ remote_disconnect

StreamSpec == Init /\ [][NextStream]_vars

\* Writer.next_message_id over the values of the counter.
InitIds ==
    /\ InitConnection
    /\ id_sequence \in SampleIdSequences

IdSpec == InitIds /\ [][take_message_id]_vars

(* ------------------------------------------------------------------ *)
(* Properties                                                         *)
(* ------------------------------------------------------------------ *)

\* C1: after the stream closes, the shutdown completes every slot that was
\* pending in the table with a network error, no slot is ever completed a
\* second time (a slot its timeout failed included), and the shutdown invokes
\* the registered close callback, which is never invoked twice.
C1_ShutdownCompletesOnce ==
    /\ [](\A f \in DOMAIN futures : futures[f].completions <= 1)
    /\ [](close_cb_calls <= 1)
    /\ [][_on_close =>
            /\ \A e \in outstanding :
                  running(futures, e.fut) =>
                     futures'[e.fut] = [state |-> "network", completions |-> 1]
            /\ close_cb # 0 => close_cb_calls' = close_cb_calls + 1]_vars

\* C2: every call gets at most one completion, and a call that has been
\* completed (by a response, an ERROR frame or its timeout) has no entry in
\* the outstanding table any more: every entry of the table is pending.
C2_CompletedOnceAndRemoved ==
    /\ \A f \in DOMAIN futures : futures[f].completions <= 1
    /\ \A e \in outstanding : running(futures, e.fut)

\* C3: a timeout that fires on a pending slot fails it with a timeout error
\* and tombstones the id with the ttl of the call; no step of the dispatch
\* loop changes a slot that has timed out, makes a new slot or adds a key to
\* the outstanding table.
C3_TimeoutThenLateDropped ==
    /\ [][\A t \in timers :
            (_request_timed_out(t) /\ running(futures, t.fut)) =>
               /\ futures'[t.fut] = [state |-> "timeout", completions |-> 1]
               /\ [id |-> t.id, ttl |-> t.ttl] \in tombstones']_vars
    /\ [][(\E k \in 1..MaxHandshakes : loop_resume(k) \/ handshake_resume(k)) =>
            /\ Len(futures') = Len(futures)
            /\ Keys(outstanding') \subseteq Keys(outstanding)
            /\ \A f \in DOMAIN futures :
                  futures[f].state = "timeout" => futures'[f] = futures[f]]_vars

\* A call timed out, and the loop has since handled a CALL_RES or ERROR of
\* its id; the caller still sees the timeout.
C3_Witness ==
    /\ late
    /\ \E f \in DOMAIN futures :
          futures[f] = [state |-> "timeout", completions |-> 1]

\* C4: every slot that send or send_request returned is completed in the end
\* (response, protocol error, timeout, or the network error of the shutdown),
\* given that the stream is closed at some point: none stays pending forever.
C4_EverySlotCompleted ==
    \A f \in 1..MaxSends :
        (f \in DOMAIN futures /\ running(futures, f))
            ~> (f \in DOMAIN futures /\ ~running(futures, f))

\* C5: Writer.next_message_id never returns 0: for every value of the id
\* counter, also at the wrap-around, the id returned (the new value of the
\* counter) is in 1..MAX_MESSAGE_ID.
C5_NextIdNeverZero ==
    [][take_message_id => id_sequence' \in 1..MAX_MESSAGE_ID]_vars

\* C6: an id has at most one entry in the outstanding table, and every key
\* of the table is in 1..MAX_MESSAGE_ID.
C6_TableKeysValid ==
    /\ \A e1, e2 \in outstanding : e1.id = e2.id => e1 = e2
    /\ Keys(outstanding) \subseteq 1..MAX_MESSAGE_ID

\* The bytes of frames, one frame after the other.
RECURSIVE wire_bytes(_)
wire_bytes(frames) ==
    IF frames = <<>> THEN <<>>
    ELSE encode(Head(frames)) \o wire_bytes(Tail(frames))

\* C7: at every moment the bytes written to the stream are a prefix of the
\* encoded frames in the order put was called with them: no frame is skipped,
\* duplicated or reordered.
C7_WireInPutOrder ==
    /\ Len(wire_out) <= Len(wire_bytes(put_log))
    /\ wire_out = SubSeq(wire_bytes(put_log), 1, Len(wire_out))

\* Three frames were put; the first two are on the wire in full and the
\* third is not, or only in part.
C7_Witness ==
    /\ Len(put_log) = 3
    /\ Len(wire_out) >= Len(wire_bytes(SubSeq(put_log, 1, 2)))
    /\ Len(wire_out) < Len(wire_bytes(put_log))
    /\ put_log[1] # put_log[2]

\* C8: every handle put returned resolves in the end, with success once its
\* frame is written or with a failure when the stream breaks or is closed
\* first: none stays pending forever.
C8_EveryHandleResolves ==
    \A h \in 1..MaxPuts :
        (h \in DOMAIN handles /\ handles[h] = "pending")
            ~> (h \in DOMAIN handles /\ handles[h] # "pending")

\* C9: an await that is pending (no inbound call was queued for it) while
\* the stream is still open does not stay pending forever, given
\* that the stream is closed at some point: the teardown fails it when no
\* call resolved it first.
C9_AwaitFailsOnTeardown ==
    \A k \in 1..MaxAwaits :
        (~stream_closed /\ k \in DOMAIN awaits /\ awaits[k].state = "pending")
            ~> (k \in DOMAIN awaits /\ awaits[k].state # "pending")

\* C10: close is idempotent.  However calls of close and the close
\* notification of the stream interleave, the shutdown runs at most once and
\* the close callback is called at most once; a call of close after the first
\* changes nothing of the connection, its futures, its stream or its
\* callbacks.
C10_CloseIdempotent ==
    /\ [](on_close_runs <= 1 /\ close_cb_calls <= 1)
    /\ [][(close /\ close_calls >= 1) =>
            UNCHANGED <<conn_vars, coro_vars, reader_vars, writer_vars,
                        stream_vars, on_close_runs, close_cb_calls>>]_vars

\* close was called twice, the second time after the shutdown, which ran
\* once and called the close callback once.
C10_Witness ==
    /\ close_calls = 2
    /\ closed
    /\ on_close_runs = 1
    /\ close_cb_calls = 1

\* C11: the connection only moves forward.  _loop_running is false as long
\* as no handshake has received the message it expects with its required
\* headers; once true it stays true; closed, once true, stays true.
C11_StateOnlyForward ==
    /\ [](loop_running =>
            \E k \in DOMAIN hs :
               /\ hs[k].pc = "done"
               /\ hs[k].msg.message_type = Expected(hs[k].kind)
               /\ hs[k].msg.headers = "full")
    /\ [][loop_running => loop_running']_vars
    /\ [][closed => closed']_vars

\* The connection went through a handshake and the dispatch loop to the
\* shutdown.
C11_Witness ==
    /\ loop_running
    /\ closed
    /\ \E k \in DOMAIN hs : hs[k].pc = "done"

\* C12: an initiate_handshake that receives a message that is not INIT_RES,
\* or an INIT_RES without host_port or process_name, fails: the loop is not
\* started, _loop_running and the remote fields keep their values; a close()
\* after the failure closes the stream and schedules the shutdown.
C12_FailedHandshake ==
    /\ [][\A k \in 1..MaxHandshakes :
            (/\ handshake_resume(k)
             /\ hs[k].kind = "initiate"
             /\ hs[k].msg.message_type # "INIT_RES" \/ hs[k].msg.headers # "full")
            => /\ hs'[k].pc = "failed"
               /\ loop_running' = loop_running
               /\ loop' = loop
               /\ remote' = remote]_vars
    /\ [][(/\ close
           /\ ~stream_closed
           /\ \E k \in DOMAIN hs : hs[k].kind = "initiate" /\ hs[k].pc = "failed")
          => close_notify' = "scheduled"]_vars
    /\ [](close_notify = "scheduled" => ENABLED _on_close)

\* An initiate_handshake failed, close() was called after it and the
\* shutdown ran; the loop never started and the remote fields are those of
\* the socket.
C12_Witness ==
    /\ \E k \in DOMAIN hs : hs[k].kind = "initiate" /\ hs[k].pc = "failed"
    /\ ~loop_running
    /\ remote = "sockname"
    /\ close_calls >= 1
    /\ on_close_runs = 1
    /\ closed

\* C13: a send before the handshake has completed, with a message that is
\* not of a CALL_REQ type, or with an id the outstanding table holds, fails
\* and leaves the table, its slots and the write queue as they were.
C13_RejectedSendNoEffect ==
    [][\A m \in SendMessages :
          (/\ send(m, 1)
           /\ \/ ~loop_running
              \/ m.message_type \notin CALL_REQ_TYPES
              \/ HasKey(outstanding, AssignId(m.id, id_sequence).id))
          => /\ "send" \in rejected'
             /\ UNCHANGED <<outstanding, futures, timers, writer_queue, drain,
                            handles, put_log, wire_out>>]_vars

\* A send was rejected while the loop runs and the table holds a pending
\* slot, which is still there.
C13_Witness ==
    /\ "send" \in rejected
    /\ loop_running
    /\ \E e \in outstanding : running(futures, e.fut)

\* C14: the loop handles one CALL_RES or CALL_RES_CONTINUE whose id is in the
\* outstanding table.  With the fragment flag, the slot stays in the table
\* as it is.  Without the flag, as the final fragment of a chain (a CALL_RES,
\* or a CALL_RES_CONTINUE whose chain is open), the slot leaves the table and,
\* when pending, is completed with the response.  A slot gets a response
\* only from a frame of its id without the fragment flag.
C14_FragmentsKeepSlot ==
    /\ [][\A k \in 1..MaxHandshakes :
            (/\ loop_resume(k)
             /\ reader_queue = <<>>
             /\ loop[k].msg.message_type \in CALL_RES_TYPES
             /\ HasKey(outstanding, loop[k].msg.id))
            => LET m == loop[k].msg
                   f == Lookup(outstanding, m.id)
               IN IF m.flags = "fragment"
                  THEN /\ [id |-> m.id, fut |-> f] \in outstanding'
                       /\ futures'[f] = futures[f]
                  ELSE (m.message_type = "CALL_RES" \/ m.id \in response_buffer)
                       => /\ ~HasKey(outstanding', m.id)
                          /\ futures'[f] = IF running(futures, f)
                                           THEN [state |-> "result", completions |-> 1]
                                           ELSE futures[f]]_vars
    /\ [][\A f \in DOMAIN futures :
            (/\ futures[f].state # "result"
             /\ futures'[f].state = "result"
             /\ reader_queue = <<>>)
            => \E k \in 1..MaxHandshakes :
                  /\ loop_resume(k)
                  /\ loop[k].msg.message_type \in CALL_RES_TYPES
                  /\ loop[k].msg.flags = "none"
                  /\ HasKey(outstanding, loop[k].msg.id)
                  /\ Lookup(outstanding, loop[k].msg.id) = f]_vars

\* One slot was completed with its response, and another is pending in the
\* table after a fragment of its response opened the reassembly of its id.
C14_Witness ==
    /\ \E f \in DOMAIN futures :
          futures[f] = [state |-> "result", completions |-> 1]
    /\ \E e \in outstanding : running(futures, e.fut) /\ e.id \in response_buffer

\* C15: the loop handles one ERROR frame.  When the outstanding table holds
\* a slot for its id, the slot leaves the table and, when pending, is failed
\* with the error of the frame; when the table holds none, the frame is
\* reported by an after_receive_error event.
C15_ErrorDeliveredOrReported ==
    [][\A k \in 1..MaxHandshakes :
          (/\ loop_resume(k)
           /\ reader_queue = <<>>
           /\ loop[k].msg.message_type = "ERROR")
          => LET m == loop[k].msg
             IN IF HasKey(outstanding, m.id)
                THEN /\ ~HasKey(outstanding', m.id)
                     /\ running(futures, Lookup(outstanding, m.id))
                        => futures'[Lookup(outstanding, m.id)] =
                              [state |-> "error", completions |-> 1]
                ELSE error_events' = error_events + 1]_vars

\* C16: an error of one call leaves the rest alone.  When the loop handles
\* one ERROR frame (of a pending call or of one that timed out), or the ttl
\* of a call expires, every other slot of the table stays in the table as it
\* is, closed keeps its value and the loop goes on to its next message.
C16_CallErrorsStayLocal ==
    /\ [][\A k \in 1..MaxHandshakes :
            (/\ loop_resume(k)
             /\ reader_queue = <<>>
             /\ loop[k].msg.message_type = "ERROR")
            => /\ closed' = closed
               /\ ~closed => loop'[k].pc = "get"
               /\ \A e \in outstanding :
                     e.id # loop[k].msg.id
                     => e \in outstanding' /\ futures'[e.fut] = futures[e.fut]]_vars
    /\ [][\A t \in timers :
            _request_timed_out(t)
            => /\ closed' = closed
               /\ loop' = loop
               /\ outstanding' = outstanding
               /\ \A f \in DOMAIN futures :
                     f # t.fut => futures'[f] = futures[f]]_vars

\* PING_RES frames among the frames put so far.
pongs_put == {i \in DOMAIN put_log : put_log[i].message_type = "PING_RES"}

\* C17: between two peers that run this connection and have completed the
\* handshake, a ping is answered: a PING_REQ that the dispatch loop of a peer
\* receives leads to a PING_RES put by that peer, as long as the two stay
\* connected.
C17_PingAnswered ==
    \A k \in 1..MaxHandshakes :
        (k \in DOMAIN loop /\ loop[k].pc = "got"
            /\ loop[k].msg.message_type = "PING_REQ")
        ~> (pongs_put # {} \/ closed)

\* The dispatch loops that are running: waiting for a message or resumed
\* with one.
live_loops == {k \in DOMAIN loop : loop[k].pc \in {"get", "got"}}

\* C18: a connection runs at most one dispatch loop, one chain of
\* Reader.fill and one Writer.drain at any time, whatever handshake, await,
\* send and write calls are made on it; a handshake call made after the
\* first never starts a second dispatch loop.
C18_OneTaskEach ==
    /\ Cardinality(live_loops) <= 1
    /\ fill_tasks <= 1
    /\ drain_tasks <= 1

\* A future completed with an exception.
failed(fs, f) == fs[f].state \in {"network", "timeout", "error"}

\* C19: when the close callback is invoked the shutdown has completed:
\* closed is true, the tombstone set and the outstanding table are empty,
\* every entry the table held has failed, and the inbound-call queue is
\* drained.  A second set_close_callback is rejected and leaves the first
\* callback registered.
C19_CallbackAfterShutdown ==
    /\ [][close_cb_calls' # close_cb_calls
            => /\ closed'
               /\ tombstones' = {}
               /\ outstanding' = {}
               /\ \A e \in outstanding : failed(futures', e.fut)
               /\ messages' = <<>>]_vars
    /\ [][\A cb \in Callbacks :
            (set_close_callback(cb) /\ close_cb # 0)
            => /\ close_cb' = close_cb
               /\ "set_close_callback" \in rejected']_vars

\* The callback registered first was invoked after a rejected second
\* registration, on a shutdown that failed a pending call and drained an
\* inbound call nobody awaited (the loop put it on the queue, nothing took
\* it, and the queue is empty).
C19_Witness ==
    /\ close_cb_calls = 1
    /\ "set_close_callback" \in rejected
    /\ \E f \in DOMAIN futures : futures[f].state = "network"
    /\ inbound_count = 2
    /\ reader_queue = <<>>
    /\ loop # <<>> /\ loop[1].pc = "get"
    /\ awaits = <<>>
    /\ messages = <<>>

\* The inbound calls handed out by await, in the order of the await calls.
handed_out ==
    SelectSeq(awaits, LAMBDA a : a.state = "message"
                                 /\ a.msg.message_type \in CALL_REQ_TYPES)

\* The wire positions of the calls handed out, then of the calls queued.
call_positions ==
    [i \in 1..Len(handed_out) |-> handed_out[i].msg.id]
    \o [i \in 1..Len(messages) |-> messages[i].id]

\* C20: a message of a CALL_REQ type that the dispatch loop receives is put
\* on the inbound-call queue (or handed to the await that waits for it) and
\* the outstanding table and its slots are left alone, also when a pending
\* slot has the id of the message; await hands the calls out in wire order,
\* each at most once.
C20_CallsQueuedInOrder ==
    /\ [][\A k \in 1..MaxHandshakes :
            (/\ loop_resume(k) /\ reader_queue = <<>>
             /\ loop[k].msg.message_type \in CALL_REQ_TYPES)
            => /\ outstanding' = outstanding
               /\ futures' = futures
               /\ response_buffer' = response_buffer
               /\ IF msg_getters = <<>>
                  THEN /\ messages' = Append(messages, loop[k].msg)
                       /\ awaits' = awaits
                  ELSE /\ messages' = messages
                       /\ awaits' = [awaits EXCEPT ![Head(msg_getters)] =
                                        [state |-> "message", msg |-> loop[k].msg]]]_vars
    /\ [](\A i, j \in DOMAIN call_positions :
             i < j => call_positions[i] < call_positions[j])

\* Two calls of the peer were handed out by two awaits in wire order while
\* a slot with the id of one of them is still pending in the table.
C20_Witness ==
    /\ Len(handed_out) = 2
    /\ handed_out[1].msg.id = 2
    /\ handed_out[2].msg.id = 3
    /\ \E e \in outstanding : e.id \in {2, 3} /\ running(futures, e.fut)
    /\ loop # <<>> /\ loop[1].pc = "get"

\* C21: when the slot of a send_request is completed (response, ERROR frame
\* or shutdown) before its ttl is over, the timeout has no effect: the timer
\* is removed, or it fires and finds the future done; in both cases no
\* future changes and the tombstone set stays as it is.
C21_TimeoutAfterCompletion ==
    /\ [][\A t \in timers :
            (_request_timed_out(t) /\ ~running(futures, t.fut))
            => /\ futures' = futures
               /\ tombstones' = tombstones
               /\ outstanding' = outstanding]_vars
    /\ [][\A t \in timers :
            remove_timeout(t)
            => /\ futures' = futures
               /\ tombstones' = tombstones
               /\ outstanding' = outstanding]_vars

\* The timeout of a call fired after the response had completed the slot:
\* the caller keeps the response and there is no tombstone.
C21_Witness ==
    /\ idle_timeouts
    /\ Len(futures) = 1
    /\ futures[1] = [state |-> "result", completions |-> 1]
    /\ timers = {}
    /\ tombstones = {}

\* The INIT_RES frames among the frames put so far.
init_res_put == {i \in DOMAIN put_log : put_log[i].message_type = "INIT_RES"}

frames_put == [i \in DOMAIN put_log |-> put_log[i].flags]

\* In a sequence of flags, only the last element may have the flag cleared.
final_only_last(w) == \A i \in DOMAIN w : w[i] = "none" => i = Len(w)

\* The final frame of the streamed call is on the wire.
final_on_wire ==
    \E i \in DOMAIN wire_out :
        /\ wire_out[i].part = "payload"
        /\ wire_out[i].id = streaming.id
        /\ wire_out[i].flags = "none"

\* C23 as stated: every call _stream has streamed wrote zero or more
\* messages with the fragment flag and then exactly one final message
\* without it, and its state is completed only after the final message was
\* written.
C23_EveryStreamEndsWithFinal ==
    /\ streaming.pc \in {"returned", "stopped", "raised"}
          => /\ streaming.written # <<>>
             /\ streaming.written[Len(streaming.written)] = "none"
             /\ final_only_last(streaming.written)
    /\ streaming.state = "completed" => final_on_wire

\* C23, amended: the messages a call has written are messages with the
\* fragment flag followed by at most one final message without it, written
\* last, and so are the frames put; a _stream that returns after its last
\* write has written exactly one final message; the state is completed only
\* after the final message is on the wire.
C23_FragmentsThenAtMostOneFinal ==
    /\ final_only_last(streaming.written)
    /\ final_only_last(frames_put)
    /\ streaming.pc = "returned"
          => /\ streaming.written # <<>>
             /\ streaming.written[Len(streaming.written)] = "none"
    /\ streaming.state = "completed" => (streaming.pc = "returned" /\ final_on_wire)

\* A call was streamed as two messages with the fragment flag and the final
\* message, all are on the wire and the state is completed.
C23_Witness ==
    /\ streaming.pc = "returned"
    /\ streaming.state = "completed"
    /\ streaming.written = <<"fragment", "fragment", "none">>
    /\ final_on_wire

\* C24: for every send, the id under which the slot is registered in the
\* outstanding table is the id of the frames put for the message, also when
\* the message came with id 0 and the id was taken from the counter, at the
\* wrap-around of the counter too.
C24_SlotIdIsFrameId ==
    [][\A m \in CallRequests :
          (send(m, 1) /\ Len(futures') = Len(futures) + 1)
          => /\ Len(put_log') > Len(put_log)
             /\ \E e \in outstanding' :
                   /\ e.fut = Len(futures')
                   /\ \A i \in (Len(put_log) + 1)..Len(put_log') :
                         put_log'[i].id = e.id]_vars

\* C25: an id gets into the tombstone set only by a timeout of that id that
\* fires while the future of its slot is pending: no other step (a response
\* or an ERROR frame handled by the loop, the shutdown, send, send_request,
\* the removal of a timer) adds a tombstone, and while the set holds a
\* tombstone some call has the timeout as its outcome.
C25_TombstonesOnlyFromTimeouts ==
    /\ [][\A e \in tombstones' \ tombstones :
            \E t \in timers :
               /\ _request_timed_out(t)
               /\ running(futures, t.fut)
               /\ e = [id |-> t.id, ttl |-> t.ttl]]_vars
    /\ [][(\/ \E k \in 1..MaxHandshakes : loop_resume(k) \/ handshake_resume(k)
           \/ \E m \in CallRequests : send(m, 1)
           \/ \E i \in CallerIds, ttl \in Ttls : send_request(i, ttl, 1)
           \/ \E t \in timers : remove_timeout(t)
           \/ _on_close)
          => tombstones' \subseteq tombstones]_vars
    /\ [](tombstones # {} => \E f \in DOMAIN futures : futures[f].state = "timeout")

\* One call timed out and left its tombstone; another was completed by its
\* response, its timer fired afterwards, and it left none.
C25_Witness ==
    /\ Cardinality(tombstones) = 1
    /\ Len(futures) = 2
    /\ \E f, g \in DOMAIN futures :
          /\ futures[f] = [state |-> "timeout", completions |-> 1]
          /\ futures[g] = [state |-> "result", completions |-> 1]
    /\ idle_timeouts
    /\ timers = {}

====
